---- MODULE Spec2Model ----
(***************************************************************************)
(* Model of the rate-computation engines of keydotco/ai-interview:         *)
(*   - LosKhipPricingCalculator (revised parser, _addRates, getBaseRates)  *)
(*   - NightlyKhipPricingCalulator (getBaseRates and its horizon)          *)
(*   - enumerateDaysBetweenDates (util.js)                                 *)
(*                                                                         *)
(* Numbers.  A JavaScript number is modelled as an exact rational          *)
(* [n |-> numerator, d |-> denominator] in lowest terms; d = 0 is NaN.     *)
(* Floating-point rounding of (rate / los) * j is not modelled.            *)
(*                                                                         *)
(* Dates.  A moment is a tick count: TicksPerDay ticks make a calendar     *)
(* day.  moment('YYYY-MM-DD') is the first tick of the day, moment() is    *)
(* any tick of the day, format('YYYY-MM-DD') is the day number.            *)
(***************************************************************************)
EXTENDS Integers, Sequences, FiniteSets, TLC

VARIABLES
    pc,                 \* which call is running / has returned
    recordPairs,        \* argument of _parseRecordPairsIntoMap
    limitedRecordPairMap, \* its return value
    originalRecordPairMap, \* what the original variant of the parser returns for it
    hasLosRecords,      \* whether the payload has a losRecords property at all
    losRecords,         \* payload.losRecords
    idx,                \* index of the reduce callback in getBaseRates (0-based)
    mappedRates,        \* accumulator of the reduce (the emitted blocks)
    emittedBy,          \* history: for each emitted block, the index of its record
    thrown,             \* the error the LOS getBaseRates threw, "none" if it did not
    nightlyPricing,     \* payload.nightlyPricing
    clock,              \* the instants the two moment() calls of the nightly engine read
    baseRates,          \* return value of the nightly getBaseRates
    enumCall,           \* arguments of a call of enumerateDaysBetweenDates
    enumDays            \* what that call returned or threw

vars == <<pc, recordPairs, limitedRecordPairMap, losRecords, idx, mappedRates,
          emittedBy, nightlyPricing, clock, baseRates, enumCall, enumDays,
          hasLosRecords, thrown, originalRecordPairMap>>

----------------------------------------------------------------------------
(* Bounds of the model *)

MaxPairs == 3          \* pairs per record handed to the parser alone
MaxLosToken == 8       \* largest LOS token of a pair handed to the parser alone
MaxRecords == 4        \* records of a LOS feed
MaxStart == 2          \* latest start day of a LOS record
MaxLosFeed == 3        \* largest LOS token inside a LOS feed
TicksPerDay == 2       \* clock ticks per calendar day
HorizonDays == 3       \* the days that stand for moment().add(2, 'years')
MaxOverrides == 2      \* nightly pricing overrides of a configuration
MaxFrom == 1           \* latest from day of an override
MaxUntil == 4          \* latest until day of an override
MaxEnumDay == 3        \* latest day handed to enumerateDaysBetweenDates alone
MaxMalformedFeed == 2  \* records of a LOS feed that may hold unparseable start dates
MaxVariantPairs == 3   \* pairs of a list handed to both variants of the parser

\* price tokens as they arrive in a record string
PriceTokens == {"null", "invalid", "0", "150.00", "840.00"}

----------------------------------------------------------------------------
(* JavaScript numbers *)

NaN == [n |-> 0, d |-> 0]

Num(x) == [n |-> x, d |-> 1]

isNaN(v) == v.d = 0

\* truthiness of a number: false for NaN and 0
Truthy(v) == v.d # 0 /\ v.n # 0

Abs(x) == IF x < 0 THEN -x ELSE x

RECURSIVE GCD(_, _)
GCD(a, b) == IF b = 0 THEN a ELSE GCD(b, a % b)

\* the rational n/d in lowest terms with d > 0; anything over 0 arising here is 0/0
Rat(n, d) ==
    IF d = 0 THEN NaN
    ELSE LET g == GCD(Abs(n), Abs(d))
             s == IF d < 0 THEN -1 ELSE 1
         IN  [n |-> s * (n \div g), d |-> s * (d \div g)]

Add(a, b) == IF isNaN(a) \/ isNaN(b) THEN NaN ELSE Rat(a.n * b.d + b.n * a.d, a.d * b.d)

Mul(a, b) == IF isNaN(a) \/ isNaN(b) THEN NaN ELSE Rat(a.n * b.n, a.d * b.d)

\* a / b for b an integer-valued or rational number; 0 / 0 is NaN
Div(a, b) == IF isNaN(a) \/ isNaN(b) THEN NaN ELSE Rat(a.n * b.d, a.d * b.n)

\* parseFloat of a price token
parseFloat(tok) ==
    CASE tok = "150.00" -> Num(150)
      [] tok = "520.00" -> Num(520)
      [] tok = "840.00" -> Num(840)
      [] tok = "0"      -> Num(0)
      [] OTHER          -> NaN

Min(S) == CHOOSE x \in S : \A y \in S : x <= y

Max(S) == CHOOSE x \in S : \A y \in S : y <= x

----------------------------------------------------------------------------
(* LosKhipPricingCalculator._parseRecordPairsIntoMap (revised variant) *)

MAX_RELEVANT_LOS == 7

\* the value minLos starts from
Infinity == 1000000

\* a pair is [los |-> parseInt(recordPairs[i]), rate |-> recordPairs[i + 1]]
PairRate(p) == parseFloat(p.rate)

\* first pass: the minimum LOS over the pairs with a usable rate
minLosOf(pairs) ==
    LET valid == {i \in 1..Len(pairs) : ~isNaN(PairRate(pairs[i])) /\ Truthy(PairRate(pairs[i]))}
    IN  IF valid = {} THEN Infinity ELSE Min({pairs[i].los : i \in valid})

\* (lastValidRate / lastValidLos) * j
GapRate(lastValidRate, lastValidLos, j) ==
    Mul(Div(lastValidRate, Num(lastValidLos)), Num(j))

\* ParseStep with the gaps scaled from the pair being read (the upper anchor)
ParseStepFromUpper(st, p) ==
    LET rate == PairRate(p)
        los  == p.los
    IN  IF ~isNaN(rate) /\ Truthy(rate)
        THEN LET gaps == {j \in (st.lastValidLos + 1)..(los - 1) :
                              j \notin DOMAIN st.map \/ ~Truthy(st.map[j])}
             IN  [map |-> [j \in DOMAIN st.map \cup gaps \cup {los} |->
                              IF j = los THEN rate
                              ELSE IF j \in gaps
                                   THEN GapRate(rate, los, j)
                                   ELSE st.map[j]],
                  lastValidLos  |-> los,
                  lastValidRate |-> rate]
        ELSE st

\* ParseStep in which a pair without a usable price still moves the anchor position
ParseStepInvalidAnchors(st, p) ==
    LET rate == PairRate(p)
        los  == p.los
    IN  IF ~isNaN(rate) /\ Truthy(rate)
        THEN LET gaps == {j \in (st.lastValidLos + 1)..(los - 1) :
                              j \notin DOMAIN st.map \/ ~Truthy(st.map[j])}
             IN  [map |-> [j \in DOMAIN st.map \cup gaps \cup {los} |->
                              IF j = los THEN rate
                              ELSE IF j \in gaps
                                   THEN GapRate(st.lastValidRate, st.lastValidLos, j)
                                   ELSE st.map[j]],
                  lastValidLos  |-> los,
                  lastValidRate |-> rate]
        ELSE [st EXCEPT !.lastValidLos = los]

\* one iteration of the second loop
ParseStep(st, p) ==
    LET rate == PairRate(p)
        los  == p.los
    IN  IF ~isNaN(rate) /\ Truthy(rate)
        THEN LET gaps == {j \in (st.lastValidLos + 1)..(los - 1) :
                              j \notin DOMAIN st.map \/ ~Truthy(st.map[j])}
             IN  [map |-> [j \in DOMAIN st.map \cup gaps \cup {los} |->
                              IF j = los THEN rate
                              ELSE IF j \in gaps
                                   THEN GapRate(st.lastValidRate, st.lastValidLos, j)
                                   ELSE st.map[j]],
                  lastValidLos  |-> los,
                  lastValidRate |-> rate]
        ELSE st

RECURSIVE ParseLoop(_, _)
ParseLoop(st, pairs) ==
    IF pairs = <<>> THEN st ELSE ParseLoop(ParseStep(st, Head(pairs)), Tail(pairs))

EmptyMap == [j \in {} |-> NaN]

ParseStart == [map |-> EmptyMap, lastValidLos |-> 0, lastValidRate |-> Num(0)]

\* ApplyLimit that forgets MAX_RELEVANT_LOS
ApplyLimitNoMax(st) ==
    [j \in {k \in DOMAIN st.map : k <= st.lastValidLos} |-> st.map[j]]

\* ApplyLimit that pads the map up to MAX_RELEVANT_LOS from the last valid pair
ApplyLimitPadded(st) ==
    LET pad == IF st.lastValidLos < MAX_RELEVANT_LOS /\ Truthy(st.lastValidRate)
               THEN {i \in (st.lastValidLos + 1)..MAX_RELEVANT_LOS :
                        i \notin DOMAIN st.map \/ ~Truthy(st.map[i])}
               ELSE {}
    IN  [j \in {k \in DOMAIN st.map \cup pad : k <= MAX_RELEVANT_LOS} |->
            IF j \in pad THEN GapRate(st.lastValidRate, st.lastValidLos, j) ELSE st.map[j]]

\* the final filter: keys <= min(lastValidLos, MAX_RELEVANT_LOS)
ApplyLimit(st) ==
    LET maxLos == IF st.lastValidLos < MAX_RELEVANT_LOS THEN st.lastValidLos
                  ELSE MAX_RELEVANT_LOS
    IN  [j \in {k \in DOMAIN st.map : k <= maxLos} |-> st.map[j]]

\* parseRecordPairsIntoMap without the early return on the minimum LOS
parseWithoutMinLosCheck(pairs) == ApplyLimit(ParseLoop(ParseStart, pairs))

parseRecordPairsIntoMap(pairs) ==
    IF minLosOf(pairs) > MAX_RELEVANT_LOS THEN EmptyMap
    ELSE ApplyLimit(ParseLoop(ParseStart, pairs))

----------------------------------------------------------------------------
(* LosKhipPricingCalculator._parseRecordPairsIntoMap (original variant) *)

\* one iteration of the loop: a pair counts only with a usable rate and a LOS of
\* at most MAX_RELEVANT_LOS
ParseStepOriginal(st, p) ==
    LET rate == PairRate(p)
        los  == p.los
    IN  IF ~isNaN(rate) /\ Truthy(rate) /\ los <= MAX_RELEVANT_LOS
        THEN LET gaps == {j \in (st.lastValidLos + 1)..(los - 1) :
                              /\ j <= MAX_RELEVANT_LOS
                              /\ (j \notin DOMAIN st.map \/ ~Truthy(st.map[j]))}
             IN  [map |-> [j \in DOMAIN st.map \cup gaps \cup {los} |->
                              IF j = los THEN rate
                              ELSE IF j \in gaps
                                   THEN GapRate(st.lastValidRate, st.lastValidLos, j)
                                   ELSE st.map[j]],
                  lastValidLos  |-> los,
                  lastValidRate |-> rate]
        ELSE st

RECURSIVE ParseLoopOriginal(_, _)
ParseLoopOriginal(st, pairs) ==
    IF pairs = <<>> THEN st
    ELSE ParseLoopOriginal(ParseStepOriginal(st, Head(pairs)), Tail(pairs))

\* the original variant without its padding
PadOriginalNone(st) == st.map

\* the padding from the last valid pair up to MAX_RELEVANT_LOS
PadOriginal(st) ==
    LET pad == IF st.lastValidLos < MAX_RELEVANT_LOS /\ Truthy(st.lastValidRate)
               THEN {i \in (st.lastValidLos + 1)..MAX_RELEVANT_LOS :
                        i \notin DOMAIN st.map \/ ~Truthy(st.map[i])}
               ELSE {}
    IN  [j \in DOMAIN st.map \cup pad |->
            IF j \in pad THEN GapRate(st.lastValidRate, st.lastValidLos, j) ELSE st.map[j]]

parseRecordPairsIntoMapOriginal(pairs) == PadOriginal(ParseLoopOriginal(ParseStart, pairs))

----------------------------------------------------------------------------
(* The parser called on its own *)

Pair(l, r) == [los |-> l, rate |-> r]

ParserPairs == {Pair(l, r) : l \in 1..MaxLosToken, r \in PriceTokens}

\* the caller splits a record string and hands over the flattened pairs: the list
\* is drawn one pair at a time
InitParse ==
    /\ pc = "pairs"
    /\ recordPairs = <<>>
    /\ limitedRecordPairMap = EmptyMap
    /\ losRecords = <<>>
    /\ idx = 0
    /\ mappedRates = <<>>
    /\ emittedBy = <<>>
    /\ nightlyPricing = <<>>
    /\ clock = <<>>
    /\ baseRates = [threw |-> FALSE, error |-> "none", rates |-> <<>>]
    /\ enumCall = <<>>
    /\ enumDays = <<>>
    /\ hasLosRecords = FALSE
    /\ originalRecordPairMap = EmptyMap
    /\ thrown = "none"

PushPair ==
    /\ pc = "pairs"
    /\ Len(recordPairs) < MaxPairs
    /\ \E p \in ParserPairs : recordPairs' = Append(recordPairs, p)
    /\ UNCHANGED <<originalRecordPairMap, hasLosRecords, thrown, enumCall, enumDays, pc, limitedRecordPairMap, losRecords, idx, mappedRates, emittedBy,
                   nightlyPricing, clock, baseRates>>

CallParse ==
    /\ pc = "pairs"
    /\ limitedRecordPairMap' = parseRecordPairsIntoMap(recordPairs)
    /\ pc' = "parsed"
    /\ UNCHANGED <<originalRecordPairMap, hasLosRecords, thrown, enumCall, enumDays, recordPairs, losRecords, idx, mappedRates, emittedBy,
                   nightlyPricing, clock, baseRates>>

NextParse == PushPair \/ CallParse

SpecParse == InitParse /\ [][NextParse]_vars

----------------------------------------------------------------------------
(* The two variants of the parser called on the same list *)

\* the pairs of a record string come in ascending LOS order
InitVariants ==
    /\ pc = "ascending"
    /\ recordPairs = <<>>
    /\ limitedRecordPairMap = EmptyMap
    /\ originalRecordPairMap = EmptyMap
    /\ losRecords = <<>>
    /\ idx = 0
    /\ mappedRates = <<>>
    /\ emittedBy = <<>>
    /\ nightlyPricing = <<>>
    /\ clock = <<>>
    /\ baseRates = [threw |-> FALSE, error |-> "none", rates |-> <<>>]
    /\ enumCall = <<>>
    /\ enumDays = <<>>
    /\ hasLosRecords = FALSE
    /\ thrown = "none"

PushAscendingPair ==
    /\ pc = "ascending"
    /\ Len(recordPairs) < MaxVariantPairs
    /\ \E p \in ParserPairs :
          /\ recordPairs # <<>> => recordPairs[Len(recordPairs)].los <= p.los
          /\ recordPairs' = Append(recordPairs, p)
    /\ UNCHANGED <<originalRecordPairMap, hasLosRecords, thrown, enumCall, enumDays, pc, limitedRecordPairMap, losRecords, idx,
                   mappedRates, emittedBy, nightlyPricing, clock, baseRates>>

CallBothParsers ==
    /\ pc = "ascending"
    /\ limitedRecordPairMap' = parseRecordPairsIntoMap(recordPairs)
    /\ originalRecordPairMap' = parseRecordPairsIntoMapOriginal(recordPairs)
    /\ pc' = "parsed both"
    /\ UNCHANGED <<hasLosRecords, thrown, enumCall, enumDays, recordPairs, losRecords, idx, mappedRates, emittedBy,
                   nightlyPricing, clock, baseRates>>

NextVariants == PushAscendingPair \/ CallBothParsers

SpecVariants == InitVariants /\ [][NextVariants]_vars

----------------------------------------------------------------------------
(* Claims about the parser *)

\* the indices of the pairs that carry a usable price
ValidIdx(pairs) == {i \in 1..Len(pairs) : Truthy(PairRate(pairs[i]))}

StrictlyAscending(pairs) ==
    \A i, j \in 1..Len(pairs) : i < j => pairs[i].los < pairs[j].los

\* i and j are consecutive valid anchors of the list
ConsecutiveAnchors(pairs, i, j) ==
    /\ i \in ValidIdx(pairs)
    /\ j \in ValidIdx(pairs)
    /\ i < j
    /\ \A k \in ValidIdx(pairs) : ~(i < k /\ k < j)

C6_KeysAndValuesValid ==
    pc = "parsed" =>
        \A k \in DOMAIN limitedRecordPairMap :
            /\ k \in 1..MAX_RELEVANT_LOS
            /\ ~isNaN(limitedRecordPairMap[k])
            /\ limitedRecordPairMap[k].n >= 0

\* C7: for pairs in ascending LOS order, every valid pair within the limit keeps
\* its exact price at its own key, and every key j strictly between two
\* consecutive valid anchors (a, priceA) and (b, priceB) holds (priceA / a) * j
C7_GapsScaledFromLowerAnchor ==
    (pc = "parsed" /\ StrictlyAscending(recordPairs)) =>
        /\ \A i \in ValidIdx(recordPairs) :
              recordPairs[i].los <= MAX_RELEVANT_LOS =>
                  /\ recordPairs[i].los \in DOMAIN limitedRecordPairMap
                  /\ limitedRecordPairMap[recordPairs[i].los] = PairRate(recordPairs[i])
        /\ \A i, j \in 1..Len(recordPairs) :
              ConsecutiveAnchors(recordPairs, i, j) =>
                  \A k \in (recordPairs[i].los + 1)..(recordPairs[j].los - 1) :
                      k <= MAX_RELEVANT_LOS =>
                          /\ k \in DOMAIN limitedRecordPairMap
                          /\ limitedRecordPairMap[k] =
                                 Rat(PairRate(recordPairs[i]).n * k, recordPairs[i].los)

\* (1, 150), (7, 840) gives 150, 300, 450, 600, 750, 900, 840
C7_Witness ==
    /\ pc = "parsed"
    /\ recordPairs = <<Pair(1, "150.00"), Pair(7, "840.00")>>
    /\ DOMAIN limitedRecordPairMap = 1..7
    /\ \A k \in 1..6 : limitedRecordPairMap[k] = Num(150 * k)
    /\ limitedRecordPairMap[7] = Num(840)

\* C8: when exactly one pair is valid, at LOS n <= MAX_RELEVANT_LOS, the returned
\* map is exactly {n: price}
C8_SingleValidPair ==
    (pc = "parsed" /\ Cardinality(ValidIdx(recordPairs)) = 1) =>
        \A i \in ValidIdx(recordPairs) :
            recordPairs[i].los <= MAX_RELEVANT_LOS =>
                /\ DOMAIN limitedRecordPairMap = {recordPairs[i].los}
                /\ limitedRecordPairMap[recordPairs[i].los] = PairRate(recordPairs[i])

\* the pairs of a list that carry a usable price, in their order
ValidPairs(pairs) == SelectSeq(pairs, LAMBDA p : Truthy(PairRate(p)))

\* C13: pairs without a usable price are skipped entirely: the returned map is the
\* map of the list with those pairs removed, and, for pairs in ascending LOS
\* order, the key of such a pair lying between two consecutive valid anchors
\* (a, priceA) and (b, priceB) holds (priceA / a) * key, the fill from the last
\* valid anchor before it
C13_InvalidPairsSkipped ==
    pc = "parsed" =>
        /\ limitedRecordPairMap = parseRecordPairsIntoMap(ValidPairs(recordPairs))
        /\ StrictlyAscending(recordPairs) =>
              \A i, j \in 1..Len(recordPairs) :
                  ConsecutiveAnchors(recordPairs, i, j) =>
                      \A k \in (i + 1)..(j - 1) :
                          recordPairs[k].los <= MAX_RELEVANT_LOS =>
                              /\ recordPairs[k].los \in DOMAIN limitedRecordPairMap
                              /\ limitedRecordPairMap[recordPairs[k].los] =
                                     Rat(PairRate(recordPairs[i]).n * recordPairs[k].los,
                                         recordPairs[i].los)

\* (1, 150), (2, no usable price), (4, 840): key 2 is filled from the 1-night anchor
C13_Witness ==
    /\ pc = "parsed"
    /\ Len(recordPairs) = 3
    /\ recordPairs[1] = Pair(1, "150.00")
    /\ recordPairs[2].los = 2 /\ ~Truthy(PairRate(recordPairs[2]))
    /\ recordPairs[3] = Pair(4, "840.00")
    /\ DOMAIN limitedRecordPairMap = 1..4
    /\ limitedRecordPairMap[2] = Num(300)
    /\ limitedRecordPairMap[3] = Num(450)

\* the highest LOS among the pairs that carry a usable price, 0 when there is none
HighestValidLos(pairs) ==
    IF ValidIdx(pairs) = {} THEN 0 ELSE Max({pairs[i].los : i \in ValidIdx(pairs)})

\* C30: for a pair list in ascending LOS order whose highest valid LOS is at least
\* MAX_RELEVANT_LOS, the original variant of the parser and the revised one return
\* the same map
C30_VariantsAgreeFromMaxLos ==
    (pc = "parsed both" /\ HighestValidLos(recordPairs) >= MAX_RELEVANT_LOS) =>
        originalRecordPairMap = limitedRecordPairMap

\* a list whose last valid pair lies beyond MAX_RELEVANT_LOS: the original variant
\* pads from the pair before it, the revised one fills the gap and truncates
C30_Witness ==
    /\ pc = "parsed both"
    /\ HighestValidLos(recordPairs) > MAX_RELEVANT_LOS
    /\ \E i \in ValidIdx(recordPairs) : recordPairs[i].los < MAX_RELEVANT_LOS - 1
    /\ DOMAIN originalRecordPairMap = 1..MAX_RELEVANT_LOS
    /\ originalRecordPairMap = limitedRecordPairMap
    /\ \A j \in 1..MAX_RELEVANT_LOS : Truthy(originalRecordPairMap[j])

\* below MAX_RELEVANT_LOS the two variants differ
C30_VariantsDifferBelowMaxLos ==
    /\ pc = "parsed both"
    /\ HighestValidLos(recordPairs) \in 1..(MAX_RELEVANT_LOS - 1)
    /\ originalRecordPairMap # limitedRecordPairMap

----------------------------------------------------------------------------
(* moment: dates as ticks, 'YYYY-MM-DD' strings as day numbers *)

\* a string that is not a date gives an invalid moment, which stays invalid under
\* add() and formats as 'Invalid date'; valid days and ticks are never negative
InvalidDate == 0 - 1

InvalidMoment == 0 - 1

isValid(m) == m # InvalidMoment

\* moment('YYYY-MM-DD'): the first tick of that day
momentOf(day) == IF day = InvalidDate THEN InvalidMoment ELSE day * TicksPerDay

\* m.format('YYYY-MM-DD')
format(m) == IF isValid(m) THEN m \div TicksPerDay ELSE InvalidDate

\* m.add(n, 'days')
addDays(m, n) == IF isValid(m) THEN m + n * TicksPerDay ELSE InvalidMoment

\* a.diff(b, 'days'): whole days, truncated toward zero
diffDays(a, b) ==
    IF a >= b THEN (a - b) \div TicksPerDay ELSE -((b - a) \div TicksPerDay)

(* util.js enumerateDaysBetweenDates *)

numDaysBetween(startDate, endDate, includeFinalDay) ==
    diffDays(endDate, startDate) + (IF includeFinalDay THEN 2 ELSE 1)

enumerateDaysBetweenDates(startDate, endDate, includeFinalDay) ==
    [i \in 1..numDaysBetween(startDate, endDate, includeFinalDay) |->
        addDays(startDate, i - 1)]

\* new Array(numDaysBetween) throws a RangeError for a negative length
enumerateResult(startDate, endDate, includeFinalDay) ==
    IF numDaysBetween(startDate, endDate, includeFinalDay) < 0
    THEN [error |-> "RangeError", days |-> <<>>]
    ELSE [error |-> "none",
          days  |-> enumerateDaysBetweenDates(startDate, endDate, includeFinalDay)]

----------------------------------------------------------------------------
(* enumerateDaysBetweenDates called on its own *)

\* the instants of the days 0..MaxEnumDay
EnumInstants == 0..(MaxEnumDay * TicksPerDay + TicksPerDay - 1)

InitEnum ==
    /\ pc = "args"
    /\ recordPairs = <<>>
    /\ limitedRecordPairMap = EmptyMap
    /\ losRecords = <<>>
    /\ idx = 0
    /\ mappedRates = <<>>
    /\ emittedBy = <<>>
    /\ nightlyPricing = <<>>
    /\ clock = <<>>
    /\ baseRates = [threw |-> FALSE, error |-> "none", rates |-> <<>>]
    /\ enumCall = <<>>
    /\ enumDays = <<>>
    /\ hasLosRecords = FALSE
    /\ originalRecordPairMap = EmptyMap
    /\ thrown = "none"

ChooseEnumArgs ==
    /\ pc = "args"
    /\ \E s \in EnumInstants, e \in EnumInstants, f \in BOOLEAN :
          enumCall' = [startDate |-> s, endDate |-> e, includeFinalDay |-> f]
    /\ pc' = "call"
    /\ UNCHANGED <<originalRecordPairMap, hasLosRecords, thrown, enumDays, recordPairs, limitedRecordPairMap, losRecords, idx, mappedRates,
                   emittedBy, nightlyPricing, clock, baseRates>>

CallEnumerate ==
    /\ pc = "call"
    /\ enumDays' = enumerateResult(enumCall.startDate, enumCall.endDate,
                                   enumCall.includeFinalDay)
    /\ pc' = "enumerated"
    /\ UNCHANGED <<originalRecordPairMap, hasLosRecords, thrown, enumCall, recordPairs, limitedRecordPairMap, losRecords, idx, mappedRates,
                   emittedBy, nightlyPricing, clock, baseRates>>

NextEnum == ChooseEnumArgs \/ CallEnumerate

SpecEnum == InitEnum /\ [][NextEnum]_vars

----------------------------------------------------------------------------
(* Claims about enumerateDaysBetweenDates *)

\* C11: for start <= end the call returns consecutive calendar dates beginning
\* at start; with includeFinalDay the last one is end and there are
\* end - start + 1 of them, without it the last one is the day before end and
\* there are end - start of them
C11_DatesFromStartToEnd ==
    (pc = "enumerated" /\ enumCall.startDate <= enumCall.endDate) =>
        LET s == format(enumCall.startDate)
            e == format(enumCall.endDate)
            n == IF enumCall.includeFinalDay THEN e - s + 1 ELSE e - s
        IN  /\ enumDays.error = "none"
            /\ Len(enumDays.days) = n
            /\ \A i \in 1..Len(enumDays.days) : format(enumDays.days[i]) = s + i - 1

\* C12: for end < start the call fails with InvalidRangeError, whatever
\* includeFinalDay is, and returns no list
C12_InvalidRangeFails ==
    (pc = "enumerated" /\ enumCall.endDate < enumCall.startDate) =>
        enumDays.error = "InvalidRangeError"

----------------------------------------------------------------------------
(* LosKhipPricingCalculator._addRates *)

RECURSIVE SumKeys(_)
SumKeys(S) == IF S = {} THEN 0 ELSE LET k == Min(S) IN k + SumKeys(S \ {k})

RECURSIVE SumRates(_, _)
SumRates(m, S) ==
    IF S = {} THEN Num(0) ELSE LET k == Min(S) IN Add(m[k], SumRates(m, S \ {k}))

\* parseFloat(x.toFixed(2)): x rounded to hundredths
toFixed2(x) ==
    IF isNaN(x) THEN NaN
    ELSE LET cents == IF x.n >= 0 THEN (200 * x.n + x.d) \div (2 * x.d)
                      ELSE -((200 * (-x.n) + x.d) \div (2 * x.d))
         IN  Rat(cents, 100)

\* averageRate with the number of entries as the divisor
averageRateByCount(losRateMap) ==
    toFixed2(Div(SumRates(losRateMap, DOMAIN losRateMap), Num(Cardinality(DOMAIN losRateMap))))

averageRate(losRateMap) ==
    toFixed2(Div(SumRates(losRateMap, DOMAIN losRateMap), Num(SumKeys(DOMAIN losRateMap))))

\* realStartDate without the correction for 1-indexed LOS
realStartDateNoOffset(losRateMap, startDate) ==
    format(addDays(momentOf(startDate), Min(DOMAIN losRateMap)))

realStartDate(losRateMap, startDate) ==
    format(addDays(momentOf(startDate), Min(DOMAIN losRateMap) - 1))

realEndDate(losRateMap, startDate) ==
    format(addDays(momentOf(startDate), Max(DOMAIN losRateMap)))

\* _addRates putting the new block in front of the existing ones
addRatesPrepend(rates, losRateMap, startDate) ==
    IF DOMAIN losRateMap = {} THEN rates
    ELSE <<[start       |-> realStartDate(losRateMap, startDate),
            end         |-> realEndDate(losRateMap, startDate),
            nightlyRate |-> averageRate(losRateMap),
            reliability |-> "estimated"]>> \o rates

addRates(rates, losRateMap, startDate) ==
    IF DOMAIN losRateMap = {} THEN rates
    ELSE Append(rates, [start       |-> realStartDate(losRateMap, startDate),
                        end         |-> realEndDate(losRateMap, startDate),
                        nightlyRate |-> averageRate(losRateMap),
                        reliability |-> "estimated"])

----------------------------------------------------------------------------
(* LosKhipPricingCalculator.getBaseRates: the reduce callback *)

\* a record is [startDate |-> day, pairs |-> the flattened (los, price) pairs]
\* the calendar date a LOS key of a record stands for
keyDate(startDate, los) == format(addDays(momentOf(startDate), los))

\* the dates of the last emitted block alone
mappedDatesOfLast(rates) ==
    IF rates = <<>> THEN {}
    ELSE LET last == rates[Len(rates)]
         IN  {last.start + j : j \in 0..(last.end - last.start + 1)}

\* the dates of the blocks emitted so far
mappedDatesOf(rates) ==
    UNION { {format(d) : d \in
               {enumerateDaysBetweenDates(momentOf(rates[b].start), momentOf(rates[b].end), TRUE)[i] :
                   i \in 1..numDaysBetween(momentOf(rates[b].start), momentOf(rates[b].end), TRUE)}} :
            b \in 1..Len(rates) }

\* enumerateDaysBetweenDates on an emitted block with an invalid date: the diff is
\* NaN and new Array(NaN) throws a RangeError
mappedDatesThrows(rates) ==
    \E b \in 1..Len(rates) :
        ~isValid(momentOf(rates[b].start)) \/ ~isValid(momentOf(rates[b].end))

\* only the first record is mapped in full
mapAllRatesFirstOnly(rates, i, startDate) == i = 0

\* isAfter is false when either moment is invalid
mapAllRates(rates, i, startDate) ==
    \/ i = 0
    \/ /\ Len(rates) > 0
       /\ isValid(momentOf(startDate))
       /\ isValid(momentOf(rates[Len(rates)].end))
       /\ momentOf(startDate) > momentOf(rates[Len(rates)].end)

\* delete the keys of the map whose date is in dates
removeDates(losRateMap, startDate, dates) ==
    [los \in {k \in DOMAIN losRateMap : keyDate(startDate, k) \notin dates} |-> losRateMap[los]]

nextMappedDatesOf(records, i) ==
    LET next == records[i + 2]
    IN  {keyDate(next.startDate, los) : los \in DOMAIN parseRecordPairsIntoMap(next.pairs)}

\* the callback without the pruning against the next record
rateMapToAddNoNext(rates, records, i) ==
    LET rec == records[i + 1]
        currentLosRateMap == parseRecordPairsIntoMap(rec.pairs)
    IN  IF mapAllRates(rates, i, rec.startDate) THEN currentLosRateMap
        ELSE removeDates(currentLosRateMap, rec.startDate, mappedDatesOf(rates))

\* the rate map the callback hands to _addRates for record i (0-based)
rateMapToAdd(rates, records, i) ==
    LET rec == records[i + 1]
        currentLosRateMap == parseRecordPairsIntoMap(rec.pairs)
        unmapped == removeDates(currentLosRateMap, rec.startDate, mappedDatesOf(rates))
    IN  IF mapAllRates(rates, i, rec.startDate) THEN currentLosRateMap
        ELSE IF i = Len(records) - 1 THEN unmapped
        ELSE removeDates(unmapped, rec.startDate, nextMappedDatesOf(records, i))

reduceCallback(rates, records, i) ==
    addRates(rates, rateMapToAdd(rates, records, i), records[i + 1].startDate)

\* losRecords.reduce(callback, []): getBaseRates as a function of the records
RECURSIVE reduceFrom(_, _, _)
reduceFrom(rates, records, i) ==
    IF i >= Len(records) THEN rates
    ELSE reduceFrom(reduceCallback(rates, records, i), records, i + 1)

losGetBaseRates(records) == reduceFrom(<<>>, records, 0)

----------------------------------------------------------------------------
(* The LOS engine called with a feed *)

\* the pair lists of a feed record: no pair, a 1-night price alone, a 1-night price
\* and the price of a 2-night or of the longest stay, or the price of the longest
\* stay alone
FeedPairLists ==
    {<<>>, <<Pair(1, "150.00")>>, <<Pair(MaxLosFeed, "840.00")>>}
    \cup {<<Pair(1, "150.00"), Pair(k, "520.00")>> : k \in {2, MaxLosFeed}}

FeedRecords == {[startDate |-> s, pairs |-> ps] : s \in 0..MaxStart, ps \in FeedPairLists}

Init ==
    /\ pc = "feed"
    /\ recordPairs = <<>>
    /\ limitedRecordPairMap = EmptyMap
    /\ losRecords = <<>>
    /\ idx = 0
    /\ mappedRates = <<>>
    /\ emittedBy = <<>>
    /\ nightlyPricing = <<>>
    /\ clock = <<>>
    /\ baseRates = [threw |-> FALSE, error |-> "none", rates |-> <<>>]
    /\ enumCall = <<>>
    /\ enumDays = <<>>
    /\ hasLosRecords \in BOOLEAN
    /\ originalRecordPairMap = EmptyMap
    /\ thrown = "none"

\* the feed arrives in chronological order
PushRecord ==
    /\ pc = "feed"
    /\ hasLosRecords
    /\ Len(losRecords) < MaxRecords
    /\ \E r \in FeedRecords :
          /\ losRecords # <<>> => losRecords[Len(losRecords)].startDate <= r.startDate
          /\ losRecords' = Append(losRecords, r)
    /\ UNCHANGED <<originalRecordPairMap, hasLosRecords, thrown, enumCall, enumDays, pc, recordPairs, limitedRecordPairMap, idx, mappedRates, emittedBy,
                   nightlyPricing, clock, baseRates>>

\* the guard clause returns [] when the payload has no losRecords
CallGetBaseRates ==
    /\ pc = "feed"
    /\ pc' = IF hasLosRecords THEN "reduce" ELSE "returned"
    /\ UNCHANGED <<originalRecordPairMap, hasLosRecords, thrown, enumCall, enumDays, recordPairs, limitedRecordPairMap, losRecords, idx, mappedRates, emittedBy,
                   nightlyPricing, clock, baseRates>>

ReduceStep ==
    /\ pc = "reduce"
    /\ idx < Len(losRecords)
    /\ ~mappedDatesThrows(mappedRates)
    /\ mappedRates' = reduceCallback(mappedRates, losRecords, idx)
    /\ emittedBy' = IF Len(mappedRates') > Len(mappedRates)
                    THEN Append(emittedBy, idx) ELSE emittedBy
    /\ idx' = idx + 1
    /\ UNCHANGED <<originalRecordPairMap, hasLosRecords, thrown, enumCall, enumDays, pc, recordPairs, limitedRecordPairMap, losRecords,
                   nightlyPricing, clock, baseRates>>

ReturnRates ==
    /\ pc = "reduce"
    /\ idx = Len(losRecords)
    /\ pc' = "returned"
    /\ UNCHANGED <<originalRecordPairMap, hasLosRecords, thrown, enumCall, enumDays, recordPairs, limitedRecordPairMap, losRecords, idx, mappedRates, emittedBy,
                   nightlyPricing, clock, baseRates>>

Next == PushRecord \/ CallGetBaseRates \/ ReduceStep \/ ReturnRates

Spec == Init /\ [][Next]_vars

----------------------------------------------------------------------------
(* The LOS engine called with a feed that may hold unparseable start dates *)

AnyFeedRecords ==
    {[startDate |-> s, pairs |-> ps] : s \in {InvalidDate} \cup 0..MaxStart, ps \in FeedPairLists}

InitMalformed ==
    /\ pc = "feed"
    /\ recordPairs = <<>>
    /\ limitedRecordPairMap = EmptyMap
    /\ losRecords = <<>>
    /\ idx = 0
    /\ mappedRates = <<>>
    /\ emittedBy = <<>>
    /\ nightlyPricing = <<>>
    /\ clock = <<>>
    /\ baseRates = [threw |-> FALSE, error |-> "none", rates |-> <<>>]
    /\ enumCall = <<>>
    /\ enumDays = <<>>
    /\ hasLosRecords = TRUE
    /\ originalRecordPairMap = EmptyMap
    /\ thrown = "none"

\* the records whose date parses are in chronological order
PushAnyRecord ==
    /\ pc = "feed"
    /\ Len(losRecords) < MaxMalformedFeed
    /\ \E r \in AnyFeedRecords :
          /\ \A j \in 1..Len(losRecords) :
                (r.startDate # InvalidDate /\ losRecords[j].startDate # InvalidDate)
                    => losRecords[j].startDate <= r.startDate
          /\ losRecords' = Append(losRecords, r)
    /\ UNCHANGED <<originalRecordPairMap, hasLosRecords, thrown, enumCall, enumDays, pc, recordPairs,
                   limitedRecordPairMap, idx, mappedRates, emittedBy, nightlyPricing,
                   clock, baseRates>>

\* the callback throws while it enumerates the dates of the emitted blocks
ReduceThrows ==
    /\ pc = "reduce"
    /\ idx < Len(losRecords)
    /\ mappedDatesThrows(mappedRates)
    /\ thrown' = "RangeError"
    /\ pc' = "threw"
    /\ UNCHANGED <<originalRecordPairMap, hasLosRecords, enumCall, enumDays, recordPairs, limitedRecordPairMap,
                   losRecords, idx, mappedRates, emittedBy, nightlyPricing, clock, baseRates>>

NextMalformed ==
    PushAnyRecord \/ CallGetBaseRates \/ ReduceStep \/ ReduceThrows \/ ReturnRates

SpecMalformed == InitMalformed /\ [][NextMalformed]_vars

----------------------------------------------------------------------------
(* Claims about the LOS engine *)

Chronological(records) ==
    \A i \in 1..Len(records) - 1 : records[i].startDate <= records[i + 1].startDate

BlocksIntersect(a, b) == a.start <= b.end /\ b.start <= a.end

\* the LOS values of the pairs of a record that carry a usable price
ValidLos(pairs) ==
    {pairs[i].los : i \in {k \in 1..Len(pairs) : Truthy(PairRate(pairs[k]))}}

\* C1: for a feed in chronological order, no calendar day lies inside the
\* inclusive [start, end] range of two different emitted blocks
C1_BlocksDisjoint ==
    Chronological(losRecords) =>
        \A i, j \in 1..Len(mappedRates) :
            i # j => ~BlocksIntersect(mappedRates[i], mappedRates[j])

C10_BlocksInOrder ==
    Chronological(losRecords) =>
        \A i, j \in 1..Len(mappedRates) :
            i < j => mappedRates[i].end < mappedRates[j].start

\* the rate map handed to _addRates when block b was emitted: the blocks before b
\* were the accumulator of that callback
MapOfBlock(b) == rateMapToAdd(SubSeq(mappedRates, 1, b - 1), losRecords, emittedBy[b])

\* C15: the nightlyRate of every block of the returned array is the sum of the prices of the
\* record's pruned rate map divided by the sum of its keys (not by the number of
\* entries), rounded to 2 decimals; it is NaN exactly when that sum is NaN
C15_RateIsSumOverKeySum ==
    pc = "returned" =>
        \A b \in 1..Len(mappedRates) :
            LET m     == MapOfBlock(b)
                total == SumRates(m, DOMAIN m)
                keys  == SumKeys(DOMAIN m)
                r     == mappedRates[b].nightlyRate
            IN  IF isNaN(total) THEN isNaN(r)
                ELSE /\ ~isNaN(r)
                     /\ 100 % r.d = 0
                     /\ 2 * Abs(r.n * (100 \div r.d) * total.d * keys - 100 * total.n)
                            <= total.d * keys

\* a block of keys {1, 2} priced 150.00 and 520.00: 670 / 3 rounds to 223.33
C15_Witness ==
    /\ pc = "returned"
    /\ \E b \in 1..Len(mappedRates) :
          /\ DOMAIN MapOfBlock(b) = {1, 2}
          /\ SumRates(MapOfBlock(b), {1, 2}) = Num(670)
          /\ mappedRates[b].nightlyRate = Rat(22333, 100)

\* C16: a returned block emitted for a record starting on S starts on S + (smallest
\* remaining key - 1) days and ends on S + (largest remaining key) days, so its
\* start is not after its end
C16_BlockSpansRemainingKeys ==
    pc = "returned" =>
        \A b \in 1..Len(mappedRates) :
            LET m == MapOfBlock(b)
                S == losRecords[emittedBy[b] + 1].startDate
            IN  /\ DOMAIN m # {}
                /\ mappedRates[b].start = S + Min(DOMAIN m) - 1
                /\ mappedRates[b].end = S + Max(DOMAIN m)
                /\ mappedRates[b].start <= mappedRates[b].end

\* a record pruned of its first night has emitted a block that starts the day
\* after its start date
C16_Witness ==
    /\ pc = "returned"
    /\ \E b \in 1..Len(mappedRates) :
          /\ Min(DOMAIN MapOfBlock(b)) = 2
          /\ mappedRates[b].start = losRecords[emittedBy[b] + 1].startDate + 1
          /\ mappedRates[b].end = losRecords[emittedBy[b] + 1].startDate + Max(DOMAIN MapOfBlock(b))

\* a feed of n records on consecutive days that all carry the same pairs
FeedOf(pairs, n) == [i \in 1..n |-> [startDate |-> i - 1, pairs |-> pairs]]

\* C14: the parser returns the empty map when the list is empty, when no pair
\* carries a usable price, or when the smallest LOS with a usable price is above
\* MAX_RELEVANT_LOS; a feed whose records all carry such pairs yields no block
C14_EmptyMapCases ==
    (/\ pc = "parsed"
     /\ \/ ValidLos(recordPairs) = {}
        \/ Min(ValidLos(recordPairs)) > MAX_RELEVANT_LOS) =>
        /\ limitedRecordPairMap = EmptyMap
        /\ \A n \in 1..2 : losGetBaseRates(FeedOf(recordPairs, n)) = <<>>

\* a record quoting a price for MAX_RELEVANT_LOS + 1 nights only has been parsed
C14_Witness ==
    /\ pc = "parsed"
    /\ recordPairs = <<Pair(1, "null"), Pair(MAX_RELEVANT_LOS + 1, "840.00")>>
    /\ limitedRecordPairMap = EmptyMap

\* the number of blocks emitted by the records before record i (0-based)
BlocksBefore(i) == Cardinality({b \in 1..Len(emittedBy) : emittedBy[b] < i})

\* the accumulator the callback of record i received
RatesBefore(i) == SubSeq(mappedRates, 1, BlocksBefore(i))

\* the rate map the callback of record i handed to _addRates
HandedMap(i) == rateMapToAdd(RatesBefore(i), losRecords, i)

ParsedMap(i) == parseRecordPairsIntoMap(losRecords[i + 1].pairs)

StartOf(i) == losRecords[i + 1].startDate

\* record i is the first one or starts strictly after the end of the last block
\* emitted before it
EmittedInFull(i) ==
    \/ i = 0
    \/ /\ BlocksBefore(i) > 0
       /\ StartOf(i) > mappedRates[BlocksBefore(i)].end

\* the calendar days the parsed rate map of record i claims
ClaimedDays(i) == {StartOf(i) + l : l \in DOMAIN ParsedMap(i)}

\* day d lies in a block emitted before record i
InEarlierBlock(i, d) ==
    \E a \in 1..BlocksBefore(i) : mappedRates[a].start <= d /\ d <= mappedRates[a].end

\* C23: the block of a record covers no day whose key the record lost because the
\* next record's rate map claims that day, and the blocks of two adjacent records
\* share no day
C23_YieldedDaysNotPriced ==
    pc = "returned" =>
        \A b \in 1..Len(mappedRates) :
            LET i == emittedBy[b]
            IN  (~EmittedInFull(i) /\ i < Len(losRecords) - 1) =>
                    /\ \A k \in DOMAIN ParsedMap(i) \ DOMAIN HandedMap(i) :
                          (StartOf(i) + k) \in ClaimedDays(i + 1) =>
                              ~(/\ mappedRates[b].start <= StartOf(i) + k
                                /\ StartOf(i) + k <= mappedRates[b].end)
                    /\ \A c \in 1..Len(mappedRates) :
                          emittedBy[c] = i + 1 =>
                              ~BlocksIntersect(mappedRates[b], mappedRates[c])

\* C24: a record before which every record had an empty rate map is emitted with
\* its full rate map, as one block from its start date to its start date + its
\* largest key, whether or not further records follow it
C24_FirstNonEmptyInFull ==
    pc = "returned" =>
        \A i \in 0..(Len(losRecords) - 1) :
            (/\ \A j \in 0..(i - 1) : ParsedMap(j) = EmptyMap
             /\ ParsedMap(i) # EmptyMap) =>
                /\ Len(mappedRates) >= 1
                /\ emittedBy[1] = i
                /\ mappedRates[1].start = StartOf(i)
                /\ mappedRates[1].end = StartOf(i) + Max(DOMAIN ParsedMap(i))

\* C25: for a record that is not first and does not start strictly after the end of
\* the last emitted block, no key handed to _addRates has its calendar date (record
\* start + los days) inside the inclusive start..end range of a block emitted before
C25_RetainedKeysOutsideEmittedBlocks ==
    pc = "returned" =>
        \A i \in 0..(Len(losRecords) - 1) :
            ~EmittedInFull(i) =>
                \A k \in DOMAIN HandedMap(i) : ~InEarlierBlock(i, StartOf(i) + k)

\* a record behind two emitted blocks lost a key to one of them and still emitted
C25_Witness ==
    /\ pc = "returned"
    /\ \E i \in 0..(Len(losRecords) - 1) :
          /\ ~EmittedInFull(i)
          /\ BlocksBefore(i) >= 2
          /\ HandedMap(i) # EmptyMap
          /\ \E k \in DOMAIN ParsedMap(i) \ DOMAIN HandedMap(i) :
                InEarlierBlock(i, StartOf(i) + k)

\* C26: a record that is neither emitted in full nor the last one hands _addRates no
\* key whose calendar date (record start + los days) is a date (next start + los
\* days) of the next record's parsed rate map; the last record is not pruned
\* against a successor: it keeps every parsed key whose date is not in the
\* enumerated dates (start..end + 1) of a block emitted before
C26_PrunedAgainstNextUnlessLast ==
    pc = "returned" =>
        \A i \in 0..(Len(losRecords) - 1) :
            ~EmittedInFull(i) =>
                IF i < Len(losRecords) - 1
                THEN \A k \in DOMAIN HandedMap(i) : StartOf(i) + k \notin ClaimedDays(i + 1)
                ELSE DOMAIN HandedMap(i) =
                        {k \in DOMAIN ParsedMap(i) :
                            ~\E a \in 1..BlocksBefore(i) :
                                /\ mappedRates[a].start <= StartOf(i) + k
                                /\ StartOf(i) + k <= mappedRates[a].end + 1}

\* a record lost a key to its successor alone and still emitted, and the last
\* record, behind an emitted block, kept a key
C26_Witness ==
    /\ pc = "returned"
    /\ Len(losRecords) >= 2
    /\ \E i \in 0..(Len(losRecords) - 2) :
          /\ ~EmittedInFull(i)
          /\ HandedMap(i) # EmptyMap
          /\ \E k \in DOMAIN ParsedMap(i) \ DOMAIN HandedMap(i) :
                /\ StartOf(i) + k \in ClaimedDays(i + 1)
                /\ ~InEarlierBlock(i, StartOf(i) + k)
    /\ LET n == Len(losRecords) - 1
       IN  /\ ~EmittedInFull(n)
           /\ BlocksBefore(n) >= 1
           /\ HandedMap(n) # EmptyMap

\* C27: a record that is the first of the list, or starts strictly after the end of
\* the last emitted block, is emitted with its full parsed rate map: no key is
\* removed, whatever the emitted blocks and the next record hold, and its block
\* runs from its start date to its start date + its largest parsed key
C27_FullMapWhenNoOverlap ==
    pc = "returned" =>
        \A i \in 0..(Len(losRecords) - 1) :
            (EmittedInFull(i) /\ ParsedMap(i) # EmptyMap) =>
                /\ HandedMap(i) = ParsedMap(i)
                /\ \E b \in 1..Len(mappedRates) :
                      /\ emittedBy[b] = i
                      /\ mappedRates[b].start = StartOf(i)
                      /\ mappedRates[b].end = StartOf(i) + Max(DOMAIN ParsedMap(i))
                      /\ mappedRates[b].nightlyRate = averageRate(ParsedMap(i))

\* a record that is not the first starts after the last block's end, and its
\* successor claims one of its dates: it is emitted in full all the same
C27_Witness ==
    /\ pc = "returned"
    /\ \E i \in 1..(Len(losRecords) - 2) :
          /\ EmittedInFull(i)
          /\ \E k \in DOMAIN ParsedMap(i) : StartOf(i) + k \in ClaimedDays(i + 1)
          /\ \E b \in 1..Len(mappedRates) : emittedBy[b] = i

\* C28: processing a record never alters the blocks already emitted: the callback
\* leaves the block sequence unchanged when the rate map it is left with is empty,
\* and otherwise appends exactly one block behind the existing ones; no other step
\* of the call changes the sequence
C28_EmittedBlocksPreserved ==
    [][IF pc = "reduce" /\ idx' = idx + 1
       THEN IF rateMapToAdd(mappedRates, losRecords, idx) = EmptyMap
            THEN mappedRates' = mappedRates
            ELSE /\ Len(mappedRates') = Len(mappedRates) + 1
                 /\ SubSeq(mappedRates', 1, Len(mappedRates)) = mappedRates
       ELSE mappedRates' = mappedRates]_vars

\* a feed of which one record had no rate, one was pruned to nothing and two
\* emitted a block each
C28_Witness ==
    /\ pc = "returned"
    /\ Len(mappedRates) >= 2
    /\ mappedRates[1] # mappedRates[2]
    /\ \E i \in 0..(Len(losRecords) - 1) : ParsedMap(i) = EmptyMap
    /\ \E i \in 0..(Len(losRecords) - 1) :
          /\ ParsedMap(i) # EmptyMap
          /\ \A b \in 1..Len(emittedBy) : emittedBy[b] # i

\* C21: a record whose start date cannot be parsed makes getBaseRates fail with
\* MalformedRecordError, and no block with an invalid start or end date is emitted
C21_MalformedRecordFails ==
    (/\ pc \in {"returned", "threw"}
     /\ \E i \in 1..Len(losRecords) : losRecords[i].startDate = InvalidDate) =>
        /\ thrown = "MalformedRecordError"
        /\ \A b \in 1..Len(mappedRates) :
              mappedRates[b].start # InvalidDate /\ mappedRates[b].end # InvalidDate

----------------------------------------------------------------------------
(* NightlyKhipPricingCalulator *)

\* payload.nightlyPricing is <<>> when absent and <<config>> when present, with
\* config = [defaultNightlyPricing |-> pricing, nightlyPricingOverrides |-> overrides];
\* a pricing is [nightlyPrice |-> number (0 when not set), dayOfWeekPrices |-> a
\* map from some weekdays 0..6 to prices]; an override is a pricing with a
\* dateRange [from |-> day, until |-> day].
\* clock = [t0 |-> the instant moment() reads in _getFinalDateToCalculate,
\*          t1 |-> the instant moment() reads in getBaseRates]

\* moment.utc(until) of the latest override, 0 overrides: null
hasOverrides(cfg) == Len(cfg.nightlyPricingOverrides) > 0

\* getFinalOverrideDate that keeps the until of the last override in the list
getFinalOverrideDateOfLast(cfg) ==
    momentOf(cfg.nightlyPricingOverrides[Len(cfg.nightlyPricingOverrides)].dateRange.until)

getFinalOverrideDate(cfg) ==
    Max({momentOf(cfg.nightlyPricingOverrides[i].dateRange.until) :
            i \in 1..Len(cfg.nightlyPricingOverrides)})

twoYearsFromNow(clk) == addDays(clk.t0, HorizonDays)

getFinalDateToCalculate(cfg, clk) ==
    IF ~hasOverrides(cfg) THEN twoYearsFromNow(clk)
    ELSE IF getFinalOverrideDate(cfg) > twoYearsFromNow(clk)
         THEN getFinalOverrideDate(cfg)
         ELSE twoYearsFromNow(clk)

\* the formatted dates the engine prices
datesToPrice(cfg, clk) ==
    LET days == enumerateDaysBetweenDates(clk.t1, getFinalDateToCalculate(cfg, clk), TRUE)
    IN  [i \in DOMAIN days |-> format(days[i])]

\* overrideMatches with both ends of the range included
overrideMatchesInclusive(ov, date) ==
    momentOf(ov.dateRange.from) <= momentOf(date) /\ momentOf(date) <= momentOf(ov.dateRange.until)

\* find(): the overrides whose range holds the date, both ends excluded
overrideMatches(ov, date) ==
    momentOf(ov.dateRange.from) < momentOf(date) /\ momentOf(date) < momentOf(ov.dateRange.until)

\* pricingToUse that takes the last matching override of the list
pricingToUseLast(cfg, date) ==
    LET hits == {i \in 1..Len(cfg.nightlyPricingOverrides) :
                    overrideMatches(cfg.nightlyPricingOverrides[i], date)}
    IN  IF hits = {} THEN cfg.defaultNightlyPricing
        ELSE cfg.nightlyPricingOverrides[Max(hits)]

pricingToUse(cfg, date) ==
    LET hits == {i \in 1..Len(cfg.nightlyPricingOverrides) :
                    overrideMatches(cfg.nightlyPricingOverrides[i], date)}
    IN  IF hits = {} THEN cfg.defaultNightlyPricing
        ELSE cfg.nightlyPricingOverrides[Min(hits)]

\* dateMoment.format('ddd'): the weekday of a day number
dayOfWeek(date) == date % 7

\* nightlyPrice || dayOfWeekPrice[dayOfWeek] throws a TypeError when nightlyPrice is
\* falsy and dayOfWeekPrices has no entry for the weekday
rateThrows(cfg, date) ==
    LET pricing == pricingToUse(cfg, date)
    IN  pricing.nightlyPrice = 0 /\ dayOfWeek(date) \notin DOMAIN pricing.dayOfWeekPrices

\* the nightlyRate of a date: <<x>> is the number x, <<>> is undefined (a number
\* indexed by the weekday name)
nightlyRateOf(cfg, date) ==
    LET pricing == pricingToUse(cfg, date)
    IN  IF pricing.nightlyPrice # 0 THEN <<pricing.nightlyPrice>> ELSE <<>>

\* the second reduce with the last block compared against the first block
compressStepFirst(rates, baseRate) ==
    IF rates = <<>> THEN <<baseRate>>
    ELSE IF baseRate.nightlyRate = rates[1].nightlyRate
         THEN [rates EXCEPT ![1].end = baseRate.end]
         ELSE Append(rates, baseRate)

\* the second reduce without the extension of the last block
compressStepNoExtend(rates, baseRate) == Append(rates, baseRate)

\* the second reduce: extend the last block or add a new one
compressStep(rates, baseRate) ==
    IF rates = <<>> THEN <<baseRate>>
    ELSE IF baseRate.nightlyRate = rates[Len(rates)].nightlyRate
         THEN [rates EXCEPT ![Len(rates)].end = baseRate.end]
         ELSE Append(rates, baseRate)

RECURSIVE compress(_, _, _)
compress(rates, daily, i) ==
    IF i > Len(daily) THEN rates ELSE compress(compressStep(rates, daily[i]), daily, i + 1)

\* the first reduce: one block per date
dailyRates(cfg, clk) ==
    LET dates == datesToPrice(cfg, clk)
    IN  [i \in DOMAIN dates |->
            [start |-> dates[i], end |-> dates[i], nightlyRate |-> nightlyRateOf(cfg, dates[i])]]

\* the empty object {}: it has neither defaultNightlyPricing nor
\* nightlyPricingOverrides
EmptyObject == [f \in {} |-> 0]

\* the result of getBaseRates: the blocks, or the TypeError of reading a property
\* of undefined (nightlyPricingOverrides.map in _getFinalOverrideDate, or line 80)
nightlyGetBaseRates(pricing, clk) ==
    IF pricing = <<>> THEN [threw |-> FALSE, error |-> "none", rates |-> <<>>]
    ELSE IF DOMAIN pricing[1] = {}
    THEN [threw |-> TRUE, error |-> "TypeError", rates |-> <<>>]
    ELSE LET cfg   == pricing[1]
             dates == datesToPrice(cfg, clk)
         IN  IF \E i \in DOMAIN dates : rateThrows(cfg, dates[i])
             THEN [threw |-> TRUE, error |-> "TypeError", rates |-> <<>>]
             ELSE [threw |-> FALSE, error |-> "none",
                   rates |-> compress(<<>>, dailyRates(cfg, clk), 1)]

----------------------------------------------------------------------------
(* The nightly engine called with a configuration *)

WeekdayPrices == [d \in 0..6 |-> IF d \in {5, 6} THEN 460 ELSE 450]

DayOfWeekMaps == {[d \in {} |-> 0], [d \in {5, 6} |-> 460], WeekdayPrices}

DefaultPricings ==
    {[nightlyPrice |-> p, dayOfWeekPrices |-> w] : p \in {0, 300}, w \in DayOfWeekMaps}

OverridePricings ==
    {[nightlyPrice |-> 500, dayOfWeekPrices |-> [d \in {} |-> 0]],
     [nightlyPrice |-> 0, dayOfWeekPrices |-> WeekdayPrices]}

Overrides ==
    {[dateRange |-> [from |-> f, until |-> u],
      nightlyPrice |-> o.nightlyPrice, dayOfWeekPrices |-> o.dayOfWeekPrices] :
        f \in 0..MaxFrom, u \in 0..MaxUntil, o \in OverridePricings}

NoResult == [threw |-> FALSE, error |-> "none", rates |-> <<>>]

InitNightly ==
    /\ pc = "config"
    /\ recordPairs = <<>>
    /\ limitedRecordPairMap = EmptyMap
    /\ losRecords = <<>>
    /\ idx = 0
    /\ mappedRates = <<>>
    /\ emittedBy = <<>>
    /\ nightlyPricing \in {<<>>, <<EmptyObject>>} \cup
           {<<[defaultNightlyPricing |-> d, nightlyPricingOverrides |-> <<>>]>> :
               d \in DefaultPricings}
    /\ clock = <<>>
    /\ baseRates = NoResult
    /\ enumCall = <<>>
    /\ enumDays = <<>>
    /\ hasLosRecords = FALSE
    /\ originalRecordPairMap = EmptyMap
    /\ thrown = "none"

PushOverride ==
    /\ pc = "config"
    /\ nightlyPricing # <<>>
    /\ nightlyPricing[1] # EmptyObject
    /\ Len(nightlyPricing[1].nightlyPricingOverrides) < MaxOverrides
    /\ \E o \in Overrides :
          /\ o.dateRange.from <= o.dateRange.until
          /\ nightlyPricing' =
                <<[nightlyPricing[1] EXCEPT
                      !.nightlyPricingOverrides = Append(@, o)]>>
    /\ UNCHANGED <<originalRecordPairMap, hasLosRecords, thrown, enumCall, enumDays, pc, recordPairs, limitedRecordPairMap, losRecords, idx, mappedRates,
                   emittedBy, clock, baseRates>>

\* the two moment() calls read the clock at t0 and at t1 >= t0, in the same
\* instant or a later one
CallNightlyGetBaseRates ==
    /\ pc = "config"
    /\ \E t \in 0..(TicksPerDay - 1), e \in {0, 1} :
          clock' = [t0 |-> t, t1 |-> t + e]
    /\ baseRates' = nightlyGetBaseRates(nightlyPricing, clock')
    /\ pc' = "returned"
    /\ UNCHANGED <<originalRecordPairMap, hasLosRecords, thrown, enumCall, enumDays, recordPairs, limitedRecordPairMap, losRecords, idx, mappedRates,
                   emittedBy, nightlyPricing>>

NextNightly == PushOverride \/ CallNightlyGetBaseRates

SpecNightly == InitNightly /\ [][NextNightly]_vars

----------------------------------------------------------------------------
(* Claims about the nightly engine *)

NightlyReturned == pc = "returned" /\ nightlyPricing # <<>> /\ ~baseRates.threw

\* C4: the returned blocks tile the horizon: the first block starts today, every
\* later block starts the day after the previous block's end, and the last block
\* ends on the date of _getFinalDateToCalculate
C4_BlocksTileHorizon ==
    NightlyReturned =>
        LET rates == baseRates.rates
        IN  /\ rates # <<>>
            /\ rates[1].start = format(clock.t1)
            /\ \A i \in 1..Len(rates) - 1 : rates[i + 1].start = rates[i].end + 1
            /\ rates[Len(rates)].end = format(getFinalDateToCalculate(nightlyPricing[1], clock))

\* C5: no two adjacent returned blocks have an equal nightlyRate
C5_AdjacentRatesDiffer ==
    pc = "returned" =>
        \A i \in 1..Len(baseRates.rates) - 1 :
            baseRates.rates[i].nightlyRate # baseRates.rates[i + 1].nightlyRate

\* several blocks were returned and one of them merges several days
C5_Witness ==
    /\ NightlyReturned
    /\ Len(baseRates.rates) >= 3
    /\ \E i \in 1..Len(baseRates.rates) : baseRates.rates[i].start < baseRates.rates[i].end

\* C9: the rate of a day is its pricing source's nightlyPrice when that is set,
\* and otherwise that source's dayOfWeekPrices entry for the day's weekday
C9_RateFromSource ==
    NightlyReturned =>
        \A b \in 1..Len(baseRates.rates) :
            \A d \in baseRates.rates[b].start..baseRates.rates[b].end :
                LET pricing == pricingToUse(nightlyPricing[1], d)
                IN  baseRates.rates[b].nightlyRate =
                        IF pricing.nightlyPrice # 0 THEN <<pricing.nightlyPrice>>
                        ELSE <<pricing.dayOfWeekPrices[dayOfWeek(d)]>>

\* the overrides of a list, except number skip, whose day range holds day d strictly
StrictHits(overrides, d, skip) ==
    {i \in 1..Len(overrides) :
        /\ i # skip
        /\ overrides[i].dateRange.from < d
        /\ d < overrides[i].dateRange.until}

\* the pricing source of day d when override number skip is left out
SourceWithout(cfg, d, skip) ==
    LET hits == StrictHits(cfg.nightlyPricingOverrides, d, skip)
    IN  IF hits = {} THEN cfg.defaultNightlyPricing
        ELSE cfg.nightlyPricingOverrides[Min(hits)]

\* what the engine makes of a source: its nightlyPrice when set, else undefined
RateOfSource(src) == IF src.nightlyPrice # 0 THEN <<src.nightlyPrice>> ELSE <<>>

\* the nightlyRate the returned blocks give day d
ReturnedRate(d) ==
    LET b == CHOOSE k \in 1..Len(baseRates.rates) :
                 baseRates.rates[k].start <= d /\ d <= baseRates.rates[k].end
    IN  baseRates.rates[b].nightlyRate

ReturnedDays ==
    UNION {baseRates.rates[k].start..baseRates.rates[k].end : k \in 1..Len(baseRates.rates)}

\* C17: the horizon is today + 2 years when there is no override or no override
\* ends later than that, and otherwise the latest until among the overrides; it
\* is never earlier than today + 2 years
C17_HorizonIsLaterOfTwo ==
    (pc = "returned" /\ nightlyPricing # <<>> /\ nightlyPricing[1] # EmptyObject) =>
        LET cfg    == nightlyPricing[1]
            h      == getFinalDateToCalculate(cfg, clock)
            two    == clock.t0 + HorizonDays * TicksPerDay
            untils == {cfg.nightlyPricingOverrides[i].dateRange.until * TicksPerDay :
                          i \in 1..Len(cfg.nightlyPricingOverrides)}
        IN  /\ h >= two
            /\ (\A u \in untils : u <= two) => h = two
            /\ (\E u \in untils : u > two) => (h \in untils /\ \A u \in untils : u <= h)

\* two overrides, the first ending later than the second and later than
\* today + 2 years: the horizon is the first one's until, and the returned
\* blocks reach it
C17_Witness ==
    /\ NightlyReturned
    /\ Len(nightlyPricing[1].nightlyPricingOverrides) = 2
    /\ nightlyPricing[1].nightlyPricingOverrides[1].dateRange.until = MaxUntil
    /\ nightlyPricing[1].nightlyPricingOverrides[2].dateRange.until < MaxUntil
    /\ getFinalDateToCalculate(nightlyPricing[1], clock) = momentOf(MaxUntil)
    /\ momentOf(MaxUntil) > twoYearsFromNow(clock)
    /\ MaxUntil \in ReturnedDays

\* C18: the pricing source of a day is the first override in list order whose
\* range holds the day, whatever later overrides hold it too, and the default
\* pricing when no override holds it
C18_FirstMatchingOverride ==
    NightlyReturned =>
        \A d \in ReturnedDays :
            ReturnedRate(d) = RateOfSource(SourceWithout(nightlyPricing[1], d, 0))

\* two overrides with different prices both hold a day; the day has the price of
\* the first
C18_Witness ==
    /\ NightlyReturned
    /\ Len(nightlyPricing[1].nightlyPricingOverrides) = 2
    /\ \E d \in ReturnedDays :
          /\ StrictHits(nightlyPricing[1].nightlyPricingOverrides, d, 0) = {1, 2}
          /\ nightlyPricing[1].nightlyPricingOverrides[1].nightlyPrice = 500
          /\ nightlyPricing[1].nightlyPricingOverrides[2].nightlyPrice = 0
          /\ ReturnedRate(d) = <<500>>

\* C19: an override does not apply on its own from day nor on its own until
\* day (so an override with from = until applies to no day): such a day is
\* priced as if the override were not in the list
C19_RangeBoundsExcluded ==
    NightlyReturned =>
        \A d \in ReturnedDays :
            \A i \in 1..Len(nightlyPricing[1].nightlyPricingOverrides) :
                LET range == nightlyPricing[1].nightlyPricingOverrides[i].dateRange
                IN  (d = range.from \/ d = range.until) =>
                        ReturnedRate(d) = RateOfSource(SourceWithout(nightlyPricing[1], d, i))

\* a single override of price 500 over days 1..3 on a default of 300: days 1 and
\* 3 cost 300, day 2 costs 500
C19_Witness ==
    /\ NightlyReturned
    /\ Len(nightlyPricing[1].nightlyPricingOverrides) = 1
    /\ nightlyPricing[1].nightlyPricingOverrides[1].dateRange = [from |-> 1, until |-> 3]
    /\ nightlyPricing[1].nightlyPricingOverrides[1].nightlyPrice = 500
    /\ nightlyPricing[1].defaultNightlyPricing.nightlyPrice = 300
    /\ {1, 2, 3} \subseteq ReturnedDays
    /\ ReturnedRate(1) = <<300>>
    /\ ReturnedRate(2) = <<500>>
    /\ ReturnedRate(3) = <<300>>

\* C20: when the pricing source of some day of the horizon has neither a
\* nightlyPrice nor a day-of-week price for the day's weekday the engine fails
\* with NoRateAvailableError, and no returned block has an undefined nightlyRate
C20_NoRateFails ==
    (pc = "returned" /\ nightlyPricing # <<>> /\ nightlyPricing[1] # EmptyObject) =>
        LET cfg   == nightlyPricing[1]
            dates == datesToPrice(cfg, clock)
        IN  /\ (\E i \in DOMAIN dates :
                    LET src == SourceWithout(cfg, dates[i], 0)
                    IN  /\ src.nightlyPrice = 0
                        /\ dayOfWeek(dates[i]) \notin DOMAIN src.dayOfWeekPrices)
                   => baseRates.error = "NoRateAvailableError"
            /\ \A b \in 1..Len(baseRates.rates) : baseRates.rates[b].nightlyRate # <<>>

\* C22: with no input both engines return an empty array and raise no error: the
\* LOS engine when losRecords is absent or an empty list, the nightly engine when
\* nightlyPricing is absent or empty
C22_NoInputGivesEmptyArray ==
    /\ (pc = "returned" /\ (~hasLosRecords \/ losRecords = <<>>)) =>
           (thrown = "none" /\ mappedRates = <<>>)
    /\ (pc = "returned" /\ (nightlyPricing = <<>> \/ nightlyPricing = <<EmptyObject>>)) =>
           (baseRates.error = "none" /\ baseRates.rates = <<>>)

\* the rate the engine resolves for day d taken alone
ResolvedRate(d) == RateOfSource(SourceWithout(nightlyPricing[1], d, 0))

\* the returned blocks that hold day d
BlocksHolding(d) ==
    {b \in 1..Len(baseRates.rates) :
        baseRates.rates[b].start <= d /\ d <= baseRates.rates[b].end}

\* C29: the compression of the nightly engine loses nothing: every enumerated day
\* of the horizon lies in exactly one returned block, the nightlyRate of that block
\* is the rate resolved for the day alone, and a block starts exactly on the first
\* day and on the days whose resolved rate differs from the previous day's
C29_CompressionLossless ==
    NightlyReturned =>
        LET dates == datesToPrice(nightlyPricing[1], clock)
        IN  /\ \A i \in DOMAIN dates :
                  /\ Cardinality(BlocksHolding(dates[i])) = 1
                  /\ \A b \in BlocksHolding(dates[i]) :
                        baseRates.rates[b].nightlyRate = ResolvedRate(dates[i])
            /\ {baseRates.rates[b].start : b \in 1..Len(baseRates.rates)} =
                  {dates[i] : i \in {j \in DOMAIN dates :
                       j = 1 \/ ResolvedRate(dates[j]) # ResolvedRate(dates[j - 1])}}

\* a horizon on which the rate stays over two days and changes between two others
C29_Witness ==
    /\ NightlyReturned
    /\ LET dates == datesToPrice(nightlyPricing[1], clock)
       IN  /\ \E i \in 2..Len(dates) :
                 /\ ResolvedRate(dates[i]) = ResolvedRate(dates[i - 1])
                 /\ BlocksHolding(dates[i]) = BlocksHolding(dates[i - 1])
           /\ \E i \in 2..Len(dates) :
                 /\ ResolvedRate(dates[i]) # ResolvedRate(dates[i - 1])
                 /\ ResolvedRate(dates[i]) # <<>>
                 /\ ResolvedRate(dates[i - 1]) # <<>>
                 /\ BlocksHolding(dates[i]) # BlocksHolding(dates[i - 1])

====
